---- MODULE Spec2Model ----
(***************************************************************************)
(* Model of the Sentry vendor report job: sentry_export.py (semver_key,    *)
(* get_latest_releases, fetch_issues, get_vendor, process_issues,          *)
(* save_report, main) and slack_uploader.py (upload_file_to_slack).        *)
(*                                                                         *)
(* Python strings are sequences of one-character strings, so that strip,   *)
(* lower, split, partition, startswith and the regular expressions are     *)
(* computed character by character as the interpreter computes them.       *)
(***************************************************************************)
EXTENDS Integers, Sequences, FiniteSets, TLC

VARIABLES
    \* the comparator: the kind of input, two version strings, their keys, the
    \* position
    sv_kind, sv_a, sv_b, sv_ka, sv_kb, sv_pc,
    \* get_latest_releases: the catalog the server holds, the response status,
    \* limit, end_dt, RELEASE_PREFIX, the returned list, the position
    rel_data, rel_status, rel_limit, rel_end, rel_prefix, rel_picked, rel_pc,
    \* fetch_issues: the pages the server holds, the layout of its Link headers,
    \* the width of the window in days, the position, cursor, the last response
    \* (resp), all_issues, stats_period, and the log of the requests sent
    fi_pages, fi_layout, fi_days, fi_pc, fi_cursor, fi_resp, fi_all, fi_period, fi_log,
    \* process_issues and save_report: issues, the position in the list, the
    \* vendors dict (in insertion order), the local events of the last issue
    \* aggregated, the rows written to the file, the position
    agg_issues, agg_i, agg_vendors, agg_events, agg_rows, agg_pc,
    \* main: whether ORG, PROJECT, TOKEN are set, the position, releases, issues,
    \* vendors, the report file, and the calls main has made, in order
    m_org, m_project, m_token, m_pc, m_releases, m_issues, m_vendors, m_file, m_calls,
    \* upload_file_to_slack: whether slack_token, slack_channel are set, the size
    \* of the file, the position, the three responses, the requests sent, in
    \* order, and the value returned
    sl_token, sl_channel, sl_file, sl_pc, sl_slot, sl_put, sl_complete, sl_requests, sl_ret

semVars == <<sv_kind, sv_a, sv_b, sv_ka, sv_kb, sv_pc>>
relVars == <<rel_data, rel_status, rel_limit, rel_end, rel_prefix, rel_picked, rel_pc>>
fetchVars == <<fi_pages, fi_layout, fi_days, fi_pc, fi_cursor, fi_resp, fi_all,
               fi_period, fi_log>>
aggVars == <<agg_issues, agg_i, agg_vendors, agg_events, agg_rows, agg_pc>>
mainVars == <<m_org, m_project, m_token, m_pc, m_releases, m_issues, m_vendors, m_file,
              m_calls>>
slackVars == <<sl_token, sl_channel, sl_file, sl_pc, sl_slot, sl_put, sl_complete,
               sl_requests, sl_ret>>
vars == <<semVars, relVars, fetchVars, aggVars, mainVars, slackVars>>

(***************************************************************************)
(* A specification of one component leaves the other components at rest.   *)
(***************************************************************************)
SemverIdle ==
    /\ sv_kind = "idle"
    /\ sv_a = <<>>
    /\ sv_b = <<>>
    /\ sv_ka = <<>>
    /\ sv_kb = <<>>
    /\ sv_pc = "idle"

RelIdle ==
    /\ rel_data = <<>>
    /\ rel_status = 0
    /\ rel_limit = 0
    /\ rel_end = 0
    /\ rel_prefix = <<>>
    /\ rel_picked = <<>>
    /\ rel_pc = "idle"

NoResponse == [status |-> 0, issues |-> <<>>, link |-> <<>>]

FetchIdle ==
    /\ fi_pages = <<>>
    /\ fi_layout = "idle"
    /\ fi_days = 0
    /\ fi_pc = "idle"
    /\ fi_cursor = <<>>
    /\ fi_resp = NoResponse
    /\ fi_all = <<>>
    /\ fi_period = ""
    /\ fi_log = <<>>

AggIdle ==
    /\ agg_issues = <<>>
    /\ agg_i = 0
    /\ agg_vendors = <<>>
    /\ agg_events = 0
    /\ agg_rows = <<>>
    /\ agg_pc = "idle"

NoFile == [state |-> "absent", rows |-> <<>>, period |-> ""]

MainIdle ==
    /\ m_org = FALSE
    /\ m_project = FALSE
    /\ m_token = FALSE
    /\ m_pc = "idle"
    /\ m_releases = <<>>
    /\ m_issues = <<>>
    /\ m_vendors = <<>>
    /\ m_file = NoFile
    /\ m_calls = <<>>

NoSlot == [ok |-> FALSE, upload_url |-> "", file_id |-> ""]

SlackIdle ==
    /\ sl_token = FALSE
    /\ sl_channel = FALSE
    /\ sl_file = [size |-> 0, writes |-> 0]
    /\ sl_pc = "idle"
    /\ sl_slot = NoSlot
    /\ sl_put = 0
    /\ sl_complete = FALSE
    /\ sl_requests = <<>>
    /\ sl_ret = "none"

Others(own) ==
    /\ own = "semver" \/ SemverIdle
    /\ own = "releases" \/ RelIdle
    /\ own = "fetch" \/ FetchIdle
    /\ own = "aggregate" \/ AggIdle
    /\ own = "main" \/ MainIdle
    /\ own = "slack" \/ SlackIdle

(***************************************************************************)
(* Bounds of the model.                                                    *)
(***************************************************************************)
MaxVerLen == 3
MaxSufLen == 2
MaxCatalog == 3
MaxPages == 3
MaxPageIssues == 2
MaxRequests == 5
MaxIssues == 3
MaxMainIssues == 2
MaxFileSize == 3

(***************************************************************************)
(* Python string primitives.                                               *)
(***************************************************************************)
Digits == {"0", "1", "2", "3", "4", "5", "6", "7", "8", "9"}

DigitVal(c) ==
    CASE c = "0" -> 0 [] c = "1" -> 1 [] c = "2" -> 2 [] c = "3" -> 3
      [] c = "4" -> 4 [] c = "5" -> 5 [] c = "6" -> 6 [] c = "7" -> 7
      [] c = "8" -> 8 [] c = "9" -> 9

IsSpace(c) == c = " "

RECURSIVE LStrip(_)
LStrip(s) ==
    IF s # <<>> /\ IsSpace(Head(s)) THEN LStrip(Tail(s)) ELSE s

RECURSIVE RStrip(_)
RStrip(s) ==
    IF s # <<>> /\ IsSpace(s[Len(s)]) THEN RStrip(SubSeq(s, 1, Len(s) - 1)) ELSE s

\* str.strip()
Strip(s) == RStrip(LStrip(s))

UpperLetters ==
    <<"A", "B", "C", "D", "E", "F", "G", "H", "I", "J", "K", "L", "M", "N", "O", "P", "Q", "R", "S", "T", "U", "V", "W", "X", "Y", "Z">>

LowerLetters ==
    <<"a", "b", "c", "d", "e", "f", "g", "h", "i", "j", "k", "l", "m", "n", "o", "p", "q", "r", "s", "t", "u", "v", "w", "x", "y", "z">>

LetterIndex(letters, c) == CHOOSE i \in 1..Len(letters) : letters[i] = c

LowerChar(c) ==
    IF \E i \in 1..Len(UpperLetters) : UpperLetters[i] = c
    THEN LowerLetters[LetterIndex(UpperLetters, c)]
    ELSE c

UpperChar(c) ==
    IF \E i \in 1..Len(LowerLetters) : LowerLetters[i] = c
    THEN UpperLetters[LetterIndex(LowerLetters, c)]
    ELSE c

\* str.lower()
Lower(s) == [i \in 1..Len(s) |-> LowerChar(s[i])]

\* str.capitalize(): the first character upper-cased, the rest lower-cased
Capitalize(s) == [i \in 1..Len(s) |-> IF i = 1 THEN UpperChar(s[i]) ELSE LowerChar(s[i])]

\* c in s
Contains(s, c) == \E i \in 1..Len(s) : s[i] = c

\* s.find(c) + 1: the position of the first c, 0 when there is none
IndexOf(s, c) ==
    IF Contains(s, c)
    THEN CHOOSE i \in 1..Len(s) : s[i] = c /\ \A j \in 1..(i - 1) : s[j] # c
    ELSE 0

\* s.split(c, 1)[0]
BeforeFirst(s, c) ==
    IF Contains(s, c) THEN SubSeq(s, 1, IndexOf(s, c) - 1) ELSE s

\* the third component of s.partition(c)
AfterFirst(s, c) ==
    IF Contains(s, c) THEN SubSeq(s, IndexOf(s, c) + 1, Len(s)) ELSE <<>>

\* s.split(c): always at least one (possibly empty) piece
RECURSIVE Split(_, _)
Split(s, c) ==
    IF Contains(s, c)
    THEN <<BeforeFirst(s, c)>> \o Split(AfterFirst(s, c), c)
    ELSE <<s>>

\* s.startswith(p)
StartsWith(s, p) == Len(p) <= Len(s) /\ SubSeq(s, 1, Len(p)) = p

RECURSIVE DigitsValue(_, _)
DigitsValue(s, acc) ==
    IF s = <<>> THEN acc ELSE DigitsValue(Tail(s), 10 * acc + DigitVal(Head(s)))

\* int(p) inside try/except ValueError: the surrounding whitespace is ignored,
\* an empty or non-digit text raises ValueError, which the caller turns into 0
IntOrZero(p) ==
    LET t == Strip(p)
    IN  IF t # <<>> /\ \A i \in 1..Len(t) : t[i] \in Digits
        THEN DigitsValue(t, 0)
        ELSE 0

\* re.search(r"(\d+)", s): the first maximal run of digits, <<>> when no match
RECURSIVE DigitRun(_)
DigitRun(s) ==
    IF s # <<>> /\ Head(s) \in Digits THEN <<Head(s)>> \o DigitRun(Tail(s)) ELSE <<>>

RECURSIVE FirstDigitRun(_)
FirstDigitRun(s) ==
    IF s = <<>> THEN <<>>
    ELSE IF Head(s) \in Digits THEN DigitRun(s)
    ELSE FirstDigitRun(Tail(s))

(***************************************************************************)
(* semver_key                                                              *)
(***************************************************************************)
\* the for loop over base.split("."), then the padding and the cut to 4 parts
SemverNums(base) ==
    LET parts == Split(base, ".")
    IN  [i \in 1..4 |-> IF i <= Len(parts) THEN IntOrZero(parts[i]) ELSE 0]

\* the flag with its two values exchanged
FinalFlagFlipped(v) == IF Contains(v, "-") THEN 1 ELSE 0

\* final_flag = 0 if has_prerelease else 1
FinalFlag(v) == IF Contains(v, "-") THEN 0 ELSE 1

\* v = v.split("+", 1)[0]
StripBuildMetadata(v) == BeforeFirst(v, "+")

PrereleaseNum(v) ==
    LET prerelease == AfterFirst(v, "-")
        m == FirstDigitRun(prerelease)
    IN  IF Contains(v, "-") /\ prerelease # <<>> /\ m # <<>>
        THEN DigitsValue(m, 0)
        ELSE 0

semver_key(version) ==
    LET v == StripBuildMetadata(Strip(version))
        base == BeforeFirst(v, "-")
    IN  SemverNums(base) \o <<FinalFlag(v), PrereleaseNum(v)>>

\* Python's tuple comparison: lexicographic
RECURSIVE KeyLess(_, _)
KeyLess(k1, k2) ==
    IF k1 = <<>> \/ k2 = <<>> THEN k1 = <<>> /\ k2 # <<>>
    ELSE IF Head(k1) # Head(k2) THEN Head(k1) < Head(k2)
    ELSE KeyLess(Tail(k1), Tail(k2))

(***************************************************************************)
(* Stable descending sort, as list.sort(key=..., reverse=True) and         *)
(* sorted(..., reverse=True) compute it: items with equal keys keep their  *)
(* original relative order.  Items are records [k |-> key tuple, v |-> x]. *)
(***************************************************************************)
\* the position after every item whose key is not smaller than key k
RECURSIVE SlotAfterEqual(_, _)
SlotAfterEqual(sorted, k) ==
    IF sorted = <<>> \/ KeyLess(Head(sorted).k, k) THEN 0
    ELSE 1 + SlotAfterEqual(Tail(sorted), k)

\* the position after every item whose key is greater than key k
RECURSIVE SlotBeforeEqual(_, _)
SlotBeforeEqual(sorted, k) ==
    IF sorted = <<>> \/ ~KeyLess(k, Head(sorted).k) THEN 0
    ELSE 1 + SlotBeforeEqual(Tail(sorted), k)

InsertAt(sorted, n, x) ==
    SubSeq(sorted, 1, n) \o <<x>> \o SubSeq(sorted, n + 1, Len(sorted))

\* x placed before the items of equal key
InsertTiesFirst(sorted, x) == InsertAt(sorted, SlotBeforeEqual(sorted, x.k), x)

\* x placed after the items of equal key
InsertDesc(sorted, x) == InsertAt(sorted, SlotAfterEqual(sorted, x.k), x)

RECURSIVE SortInto(_, _)
SortInto(sorted, items) ==
    IF items = <<>> THEN sorted
    ELSE SortInto(InsertDesc(sorted, Head(items)), Tail(items))

StableSortDesc(items) == SortInto(<<>>, items)

\* seq[:n] for n >= 0
Take(seq, n) == SubSeq(seq, 1, IF n < Len(seq) THEN n ELSE Len(seq))

InSeq(x, seq) == \E i \in 1..Len(seq) : seq[i] = x

(***************************************************************************)
(* get_latest_releases                                                     *)
(***************************************************************************)
\* A dateCreated text is [form, t]: form "iso" is the ISO text of the instant t,
\* form "empty" the empty or missing text, form "bad" a text that is no ISO date.
Iso(t) == [form |-> "iso", t |-> t]
NoDate == [form |-> "empty", t |-> 0]
BadDate == [form |-> "bad", t |-> 0]

\* None
None == [parsed |-> FALSE, t |-> 0]

parse_iso(dt_str) ==
    IF dt_str.form = "empty" THEN None
    ELSE IF dt_str.form = "iso" THEN [parsed |-> TRUE, t |-> dt_str.t]
    ELSE None

\* the boundary instant counted as after the end
CreatedAfterOrAt(created, end_dt) == created.t >= end_dt

\* if created > end_dt: continue
CreatedAfter(created, end_dt) == created.t > end_dt

\* the for loop over data: eligible_versions in first-seen order, no duplicates
RECURSIVE EligibleVersions(_, _, _, _)
EligibleVersions(data, end_dt, prefix, eligible) ==
    IF data = <<>> THEN eligible
    ELSE LET rel == Head(data)
             version == Strip(rel.version)
             created == parse_iso(rel.dateCreated)
             keep == /\ version # <<>>
                     /\ created # None
                     /\ ~CreatedAfter(created, end_dt)
                     /\ (prefix = <<>> \/ StartsWith(version, prefix))
                     /\ ~InSeq(version, eligible)
         IN  EligibleVersions(Tail(data), end_dt, prefix,
                              IF keep THEN Append(eligible, version) ELSE eligible)

\* eligible_versions.sort(key=semver_key, reverse=True)
SortBySemver(versions) ==
    LET items == [i \in 1..Len(versions) |-> [k |-> semver_key(versions[i]), v |-> versions[i]]]
        sorted == StableSortDesc(items)
    IN  [i \in 1..Len(sorted) |-> sorted[i].v]

PickedReleases(data, limit, end_dt, prefix) ==
    Take(SortBySemver(EligibleVersions(data, end_dt, prefix, <<>>)), limit)

V306 == <<"3", ".", "0", ".", "6">>
V3039 == <<"3", ".", "0", ".", "3", "9">>
V311 == <<"3", ".", "1", ".", "1">>
V312 == <<"3", ".", "1", ".", "2">>
V313 == <<"3", ".", "1", ".", "3">>
V31 == <<"3", ".", "1">>
V310 == <<"3", ".", "1", ".", "0">>
V310beta1 == V310 \o <<"-", "b", "e", "t", "a", ".", "1">>
V310beta2 == V310 \o <<"-", "b", "e", "t", "a", ".", "2">>
V12345 == <<"1", ".", "2", ".", "3", ".", "4", ".", "5">>
V12349 == <<"1", ".", "2", ".", "3", ".", "4", ".", "9">>

R(version, dateCreated) == [version |-> version, dateCreated |-> dateCreated]

V32 == <<"3", ".", "2">>
V09 == <<"0", ".", "9">>
V33 == <<"3", ".", "3">>

\* the releases a catalog is made of
Releases ==
    { R(V31, Iso(0)), R(V310, Iso(0)), R(<<" ">> \o V32, Iso(1)), R(V32, Iso(0)),
      R(V09, Iso(0)), R(<<" ">>, Iso(0)), R(V33, BadDate), R(V33, NoDate),
      R(V31 \o <<"-", "b">>, Iso(1)) }

RECURSIVE SeqsUpTo(_, _)
SeqsUpTo(S, n) ==
    IF n = 0 THEN {<<>>}
    ELSE LET shorter == SeqsUpTo(S, n - 1)
         IN  shorter \cup {Append(s, x) : s \in shorter, x \in S}

RelInit ==
    /\ rel_data \in SeqsUpTo(Releases, MaxCatalog)
    /\ rel_status = 0
    /\ rel_limit \in 0..MaxCatalog
    /\ rel_end \in {0, 1}
    /\ rel_prefix \in {<<>>, <<"3", ".">>}
    /\ rel_picked = <<>>
    /\ rel_pc = "call"
    /\ Others("releases")

\* resp.status_code != 200: return []
GetLatestReleasesFail ==
    /\ rel_pc = "call"
    /\ rel_status' = 500
    /\ rel_picked' = <<>>
    /\ rel_pc' = "returned"
    /\ UNCHANGED <<rel_data, rel_limit, rel_end, rel_prefix, semVars, fetchVars, aggVars, mainVars, slackVars>>

GetLatestReleasesOk ==
    /\ rel_pc = "call"
    /\ rel_status' = 200
    /\ rel_picked' = PickedReleases(rel_data, rel_limit, rel_end, rel_prefix)
    /\ rel_pc' = "returned"
    /\ UNCHANGED <<rel_data, rel_limit, rel_end, rel_prefix, semVars, fetchVars, aggVars, mainVars, slackVars>>

RelNext == GetLatestReleasesFail \/ GetLatestReleasesOk

SpecReleases == RelInit /\ [][RelNext]_vars

(***************************************************************************)
(* C7                                                                      *)
(***************************************************************************)
\* the claim's eligibility rule for the release at position i of the catalog
IsEligible(i) ==
    /\ Strip(rel_data[i].version) # <<>>
    /\ rel_data[i].dateCreated.form = "iso"
    /\ rel_data[i].dateCreated.t <= rel_end
    /\ (rel_prefix = <<>> \/ StartsWith(Strip(rel_data[i].version), rel_prefix))

EligibleSet == {Strip(rel_data[i].version) : i \in {j \in 1..Len(rel_data) : IsEligible(j)}}

Min(a, b) == IF a < b THEN a ELSE b

\* C7: on a successful catalog response get_latest_releases returns at most
\* `limit` entries: distinct eligible versions, in descending semver_key order,
\* as many as the limit and the eligible set allow, and no eligible version
\* left out has a greater key than a returned one; a release that is not
\* eligible (created strictly after the window end, unparseable date, blank
\* version, wrong prefix) contributes nothing.
LatestReleasesSelected ==
    (rel_pc = "returned" /\ rel_status = 200) =>
        /\ Len(rel_picked) <= rel_limit
        /\ Len(rel_picked) = Min(rel_limit, Cardinality(EligibleSet))
        /\ \A i \in 1..Len(rel_picked) : rel_picked[i] \in EligibleSet
        /\ \A i, j \in 1..Len(rel_picked) : i # j => rel_picked[i] # rel_picked[j]
        /\ \A i, j \in 1..Len(rel_picked) :
              i < j => ~KeyLess(semver_key(rel_picked[i]), semver_key(rel_picked[j]))
        /\ \A v \in EligibleSet :
              ~InSeq(v, rel_picked) =>
                  \A i \in 1..Len(rel_picked) :
                      ~KeyLess(semver_key(rel_picked[i]), semver_key(v))

\* the catalog's highest version was created after the window end and is left
\* out, the next ones are returned
LatestReleasesWitness ==
    /\ rel_pc = "returned"
    /\ rel_status = 200
    /\ rel_end = 0
    /\ rel_limit = 2
    /\ rel_data = <<R(V31, Iso(0)), R(<<" ">> \o V32, Iso(1)), R(V310, Iso(0))>>
    /\ rel_picked = <<V31, V310>>

(***************************************************************************)
(* fetch_issues                                                            *)
(***************************************************************************)
\* period_days = (end_dt - start_dt).days; "24h" if period_days <= 1 else "14d"
StatsPeriod(period_days) == IF period_days <= 1 THEN "24h" ELSE "14d"

\* A cursor token is <<p>>: the server answers it with page p.  None is <<>>.
\* One link of a Link header: <url with cursor>; rel="..."
Link(rel, cursor) == [rel |-> rel, cursor |-> cursor]

\* The issues of page p: none outside the chain 1..Len(pages)
PageIssues(pages, p) ==
    IF p \in 1..Len(pages) THEN [i \in 1..pages[p] |-> <<p, i>>] ELSE <<>>

\* The Link header the server sends with page p of a chain of k pages.
\*   "sentry":    previous then next, both always present (results="false"
\*                marks the one that leads nowhere)
\*   "next_only": the next link alone, absent on the last page
\*   "prev_next": previous (from page 2 on) then next (up to page k - 1)
\*   "next_prev": the same two links, next first
\*   "next_bare": a next relation whose link carries no cursor parameter
LinkHeader(layout, p, k) ==
    LET prev == IF p > 1 THEN <<Link("previous", <<p - 1>>)>> ELSE <<>>
        next == IF p < k THEN <<Link("next", <<p + 1>>)>> ELSE <<>>
    IN  CASE layout = "sentry" ->
               <<Link("previous", <<IF p > 0 THEN p - 1 ELSE 0>>), Link("next", <<p + 1>>)>>
          [] layout = "next_only" -> next
          [] layout = "prev_next" -> prev \o next
          [] layout = "next_prev" -> next \o prev
          [] layout = "next_bare" -> IF p < k THEN <<Link("next", <<>>)>> ELSE <<>>

Layouts == {"sentry", "next_only", "prev_next", "next_prev", "next_bare"}

\* requests.get(url): the page the cursor names, the first page without one
ServerResponse(status, pages, layout, cursor) ==
    LET p == IF cursor = <<>> THEN 1 ELSE cursor[1]
    IN  IF status = 200
        THEN [status |-> 200, issues |-> PageIssues(pages, p),
              link |-> LinkHeader(layout, p, Len(pages))]
        ELSE [status |-> status, issues |-> <<>>, link |-> <<>>]

\* 'rel="next"' in link_header
HasRelNext(link_header) == \E i \in 1..Len(link_header) : link_header[i].rel = "next"

\* re.search(r"cursor=([^&>]+)", link_header): the first cursor parameter of
\* the header text, whichever link it belongs to; <<>> when there is no match
RECURSIVE FirstCursor(_)
FirstCursor(link_header) ==
    IF link_header = <<>> THEN <<>>
    ELSE IF Head(link_header).cursor # <<>> THEN Head(link_header).cursor
    ELSE FirstCursor(Tail(link_header))

\* a non-success response followed by another request
AfterApiErrorRetry == "request"

\* where a non-success response leads: break, to the return statement
AfterApiError == "returned"

FetchInit ==
    /\ fi_pages \in SeqsUpTo(0..MaxPageIssues, MaxPages)
    /\ fi_layout \in Layouts
    /\ fi_days \in {1, 7}
    /\ fi_pc = "call"
    /\ fi_cursor = <<>>
    /\ fi_resp = NoResponse
    /\ fi_all = <<>>
    /\ fi_period = ""
    /\ fi_log = <<>>
    /\ Others("fetch")

\* build_query, all_issues = [], cursor = None
FetchCall ==
    /\ fi_pc = "call"
    /\ fi_period' = StatsPeriod(fi_days)
    /\ fi_all' = <<>>
    /\ fi_cursor' = <<>>
    /\ fi_pc' = "request"
    /\ UNCHANGED <<fi_pages, fi_layout, fi_days, fi_resp, fi_log, semVars, relVars, aggVars, mainVars, slackVars>>

\* resp = requests.get(url, headers=headers), the cursor appended when set
FetchRequest ==
    /\ fi_pc = "request"
    /\ Len(fi_log) < MaxRequests
    /\ \E status \in {200, 500} :
          fi_resp' = ServerResponse(status, fi_pages, fi_layout, fi_cursor)
    /\ fi_log' = Append(fi_log, [cursor |-> fi_cursor, status |-> fi_resp'.status,
                                 issues |-> fi_resp'.issues])
    /\ fi_pc' = "response"
    /\ UNCHANGED <<fi_pages, fi_layout, fi_days, fi_cursor, fi_all, fi_period,
                   semVars, relVars, aggVars, mainVars, slackVars>>

\* if resp.status_code != 200: print, break
FetchApiError ==
    /\ fi_pc = "response"
    /\ fi_resp.status # 200
    /\ fi_pc' = AfterApiError
    /\ UNCHANGED <<fi_pages, fi_layout, fi_days, fi_cursor, fi_resp, fi_all, fi_period,
                   fi_log, semVars, relVars, aggVars, mainVars, slackVars>>

\* if not issues: break
FetchEmptyPage ==
    /\ fi_pc = "response"
    /\ fi_resp.status = 200
    /\ fi_resp.issues = <<>>
    /\ fi_pc' = "returned"
    /\ UNCHANGED <<fi_pages, fi_layout, fi_days, fi_cursor, fi_resp, fi_all, fi_period,
                   fi_log, semVars, relVars, aggVars, mainVars, slackVars>>

\* all_issues.extend(issues); if 'rel="next"' not in link_header: break
FetchNoNextLink ==
    /\ fi_pc = "response"
    /\ fi_resp.status = 200
    /\ fi_resp.issues # <<>>
    /\ ~HasRelNext(fi_resp.link)
    /\ fi_all' = fi_all \o fi_resp.issues
    /\ fi_pc' = "returned"
    /\ UNCHANGED <<fi_pages, fi_layout, fi_days, fi_cursor, fi_resp, fi_period,
                   fi_log, semVars, relVars, aggVars, mainVars, slackVars>>

\* all_issues.extend(issues); m = re.search(...); if not m: break
FetchNoCursor ==
    /\ fi_pc = "response"
    /\ fi_resp.status = 200
    /\ fi_resp.issues # <<>>
    /\ HasRelNext(fi_resp.link)
    /\ FirstCursor(fi_resp.link) = <<>>
    /\ fi_all' = fi_all \o fi_resp.issues
    /\ fi_pc' = "returned"
    /\ UNCHANGED <<fi_pages, fi_layout, fi_days, fi_cursor, fi_resp, fi_period,
                   fi_log, semVars, relVars, aggVars, mainVars, slackVars>>

\* all_issues.extend(issues); cursor = m.group(1)
FetchNextPage ==
    /\ fi_pc = "response"
    /\ fi_resp.status = 200
    /\ fi_resp.issues # <<>>
    /\ HasRelNext(fi_resp.link)
    /\ FirstCursor(fi_resp.link) # <<>>
    /\ fi_all' = fi_all \o fi_resp.issues
    /\ fi_cursor' = FirstCursor(fi_resp.link)
    /\ fi_pc' = "request"
    /\ UNCHANGED <<fi_pages, fi_layout, fi_days, fi_resp, fi_period, fi_log,
                   semVars, relVars, aggVars, mainVars, slackVars>>

FetchNext ==
    \/ FetchCall
    \/ FetchRequest
    \/ FetchApiError
    \/ FetchEmptyPage
    \/ FetchNoNextLink
    \/ FetchNoCursor
    \/ FetchNextPage

SpecFetch == FetchInit /\ [][FetchNext]_vars

(***************************************************************************)
(* C2, C3, C4                                                              *)
(***************************************************************************)
\* the cursor of the link whose relation is "next"
NextLinkCursor(link_header) ==
    LET i == CHOOSE j \in 1..Len(link_header) : link_header[j].rel = "next"
    IN  link_header[i].cursor

\* C2: after a successful non-empty page whose Link header carries a "next"
\* relation (with a cursor), the cursor of the following request is the cursor
\* of that "next" link, whatever else the header lists before it.
CursorFollowsNextLink ==
    (/\ fi_pc = "request"
     /\ fi_resp.status = 200
     /\ fi_resp.issues # <<>>
     /\ HasRelNext(fi_resp.link)
     /\ NextLinkCursor(fi_resp.link) # <<>>)
        => fi_cursor = NextLinkCursor(fi_resp.link)

RECURSIVE ConcatPages(_, _)
ConcatPages(pages, n) ==
    IF n = 0 THEN <<>> ELSE ConcatPages(pages, n - 1) \o PageIssues(pages, n)

\* the pages before the first empty one
RECURSIVE NonEmptyPrefix(_, _)
NonEmptyPrefix(pages, n) ==
    IF n < Len(pages) /\ pages[n + 1] > 0 THEN NonEmptyPrefix(pages, n + 1) ELSE n

AllSuccess == \A i \in 1..Len(fi_log) : fi_log[i].status = 200

\* C3: against a server that answers every request with success, fetch_issues
\* returns the issues of every page of the chain up to the first empty page, in
\* order, each page requested exactly once.
FetchReturnsEveryPage ==
    (fi_pc = "returned" /\ AllSuccess /\ fi_layout # "next_bare") =>
        /\ fi_all = ConcatPages(fi_pages, NonEmptyPrefix(fi_pages, 0))
        /\ \A i, j \in 1..Len(fi_log) : i # j => fi_log[i].cursor # fi_log[j].cursor

RECURSIVE ConcatLog(_, _)
ConcatLog(log, n) ==
    IF n = 0 THEN <<>> ELSE ConcatLog(log, n - 1) \o log[n].issues

\* C4: a response with a status other than 200 is the last request of the call
\* (no request follows it, on whichever page it occurs), and the call then
\* returns exactly the issues of the successful pages before it, with the
\* stats period label.
ApiErrorEndsPagination ==
    /\ \A i \in 1..(Len(fi_log) - 1) : fi_log[i].status = 200
    /\ (Len(fi_log) > 0 /\ fi_log[Len(fi_log)].status # 200) =>
          /\ fi_pc \in {"response", "returned"}
          /\ fi_all = ConcatLog(fi_log, Len(fi_log) - 1)
          /\ fi_period = StatsPeriod(fi_days)

\* the third request fails: the two pages fetched before it are returned
ApiErrorWitness ==
    /\ fi_pc = "returned"
    /\ Len(fi_log) = 3
    /\ fi_log[3].status = 500
    /\ fi_all = <<<<1, 1>>, <<2, 1>>>>

(***************************************************************************)
(* get_vendor, process_issues, save_report                                 *)
(***************************************************************************)
EXCLUDE ==
    { <<"u", "n", "k", "n", "o", "w", "n">>,
      <<"t", "y", "p", "e", "e", "r", "r", "o", "r">>,
      <<"s", "e", "c", "u", "r", "i", "t", "y", "e", "r", "r", "o", "r">>,
      <<"e", "r", "r", "o", "r">>,
      <<"s", "y", "n", "t", "a", "x", "e", "r", "r", "o", "r">>,
      <<"n", "o", "t", "a", "l", "l", "o", "w", "e", "d", "e", "r", "r", "o", "r">>,
      <<"r", "e", "f", "e", "r", "e", "n", "c", "e", "e", "r", "r", "o", "r">>,
      <<"a", "b", "o", "r", "t", "e", "r", "r", "o", "r">>,
      <<"m", "o", "n", "o", "r", "a", "i", "l", "r", "e", "q", "u", "e", "s", "t", "e", "r", "r", "o", "r">>,
      <<"r", "u", "n", "t", "i", "m", "e", "e", "r", "r", "o", "r">>,
      <<"r", "p", "c", "e", "r", "r", "o", "r">> }

\* An issue: type is metadata.type ("" when metadata or type is missing),
\* title and value the two message sources, count the raw total, stats the
\* mapping period -> series in the order of its keys.  A series is
\* [isList, counts]: the counts of its (timestamp, count) pairs when it is a
\* list, isList FALSE for any other value (null).
Series(counts) == [isList |-> TRUE, counts |-> counts]
NotAList == [isList |-> FALSE, counts |-> <<>>]
Stat(key, series) == [key |-> key, series |-> series]

Issue(type, title, value, count, stats) ==
    [type |-> type, title |-> title, value |-> value, count |-> count, stats |-> stats]

\* the trimmed text in its original case
NormalizeKeepCase(vendor_raw) == Strip(vendor_raw)

\* vendor = vendor_raw.strip().lower()
Normalize(vendor_raw) == Lower(Strip(vendor_raw))

\* get_vendor: the vendor key, <<>> standing for None
get_vendor(issue) ==
    LET vendor_raw == issue.type
        vendor == Normalize(vendor_raw)
    IN  IF vendor_raw = <<>> THEN <<>>
        ELSE IF vendor = <<>> \/ vendor \in EXCLUDE THEN <<>>
        ELSE vendor

RECURSIVE SumSeq(_)
SumSeq(s) == IF s = <<>> THEN 0 ELSE Head(s) + SumSeq(Tail(s))

\* the events of one issue, both sources added
IssueEventsBoth(issue) ==
    issue.count + (IF issue.stats # <<>> /\ issue.stats[1].series.isList
                   THEN SumSeq(issue.stats[1].series.counts) ELSE 0)

\* stats = issue.get("stats") or {}; the if/else that sets events
IssueEvents(issue) ==
    LET stats == issue.stats
    IN  IF stats # <<>>
        THEN LET period_key == stats[1].key
             IN  IF period_key # "" /\ stats[1].series.isList
                 THEN SumSeq(stats[1].series.counts)
                 ELSE issue.count
        ELSE issue.count

\* message = issue.get("title") or issue.get("metadata", {}).get("value", "")
IssueMessage(issue) == IF issue.title # <<>> THEN issue.title ELSE issue.value

\* the position of vendor in the dict, 0 when it is not a key
VendorIndex(vendors, vendor) ==
    IF \E i \in 1..Len(vendors) : vendors[i].vendor = vendor
    THEN CHOOSE i \in 1..Len(vendors) : vendors[i].vendor = vendor
    ELSE 0

\* the body of the for loop for an issue that has a vendor
Aggregate(vendors, vendor, events, message) ==
    LET with == IF VendorIndex(vendors, vendor) = 0
                THEN Append(vendors, [vendor |-> vendor, Events |-> 0,
                                      Messages |-> <<>>, IssueCount |-> 0])
                ELSE vendors
        i == VendorIndex(with, vendor)
    IN  [with EXCEPT ![i].Events = @ + events,
                     ![i].Messages = Append(@, message),
                     ![i].IssueCount = @ + 1]

\* the order of two characters
CharCode(c) ==
    IF \E i \in 1..Len(UpperLetters) : UpperLetters[i] = c
    THEN 100 + LetterIndex(UpperLetters, c)
    ELSE IF \E i \in 1..Len(LowerLetters) : LowerLetters[i] = c
    THEN 200 + LetterIndex(LowerLetters, c)
    ELSE 0

\* sorted(set(messages)): the distinct messages in ascending order
RECURSIVE SortedSet(_)
SortedSet(S) ==
    IF S = {} THEN <<>>
    ELSE LET least == CHOOSE m \in S :
                         \A n \in S \ {m} :
                            KeyLess([i \in 1..Len(m) |-> CharCode(m[i])],
                                    [i \in 1..Len(n) |-> CharCode(n[i])])
         IN  <<least>> \o SortedSet(S \ {least})

\* sorted(vendors.items(), key=lambda x: x[1]["Events"], reverse=True)
SortedVendors(vendors) ==
    LET items == [i \in 1..Len(vendors) |-> [k |-> <<vendors[i].Events>>, v |-> vendors[i]]]
        sorted == StableSortDesc(items)
    IN  [i \in 1..Len(sorted) |-> sorted[i].v]

\* the rows writer.writerow writes after the header
ReportRows(vendors) ==
    LET sorted_vendors == SortedVendors(vendors)
    IN  [rank \in 1..Len(sorted_vendors) |->
            [Rank |-> rank,
             Vendor |-> Capitalize(sorted_vendors[rank].vendor),
             Events |-> sorted_vendors[rank].Events,
             Issues |-> sorted_vendors[rank].IssueCount,
             Messages |-> SortedSet({sorted_vendors[rank].Messages[j] :
                                        j \in 1..Len(sorted_vendors[rank].Messages)})]]

Stripe == <<"S", "t", "r", "i", "p", "e">>
Plaid == <<"P", "l", "a", "i", "d">>
Adyen == <<"A", "d", "y", "e", "n">>
Stats14d(counts) == <<Stat("14d", Series(counts))>>

\* the issues a fetched list is made of
IssuePool ==
    { Issue(Stripe, <<"a">>, <<>>, 5, <<>>),
      Issue(<<"s", "t", "r", "i", "p", "e">>, <<>>, <<"b">>, 3, Stats14d(<<1, 1>>)),
      Issue(<<" ", "S", "T", "R", "I", "P", "E", " ">>, <<"a">>, <<>>, 3, Stats14d(<<>>)),
      Issue(<<"T", "y", "p", "e", "E", "r", "r", "o", "r">>, <<"a">>, <<>>, 9, <<>>),
      Issue(<<"t", "y", "p", "e", "e", "r", "r", "o", "r">>, <<"a">>, <<>>, 9, Stats14d(<<4>>)),
      Issue(<<"T", "Y", "P", "E", "E", "R", "R", "O", "R">>, <<"a">>, <<>>, 9, <<>>),
      Issue(<<"u", "n", "k", "n", "o", "w", "n">>, <<"a">>, <<>>, 100, <<>>),
      Issue(<<>>, <<"a">>, <<>>, 7, <<>>),
      Issue(<<" ">>, <<"a">>, <<>>, 7, <<>>),
      Issue(Plaid, <<"b">>, <<>>, 5, <<Stat("14d", NotAList)>>),
      Issue(Plaid, <<>>, <<>>, 3, <<Stat("24h", Series(<<2>>)), Stat("14d", Series(<<7>>))>>),
      Issue(Adyen, <<"b">>, <<"a">>, 2, <<Stat("", Series(<<>>))>>) }

AggInit ==
    /\ agg_issues \in SeqsUpTo(IssuePool, MaxIssues)
    /\ agg_i = 0
    /\ agg_vendors = <<>>
    /\ agg_events = 0
    /\ agg_rows = <<>>
    /\ agg_pc = "call"
    /\ Others("aggregate")

\* vendors = {}
ProcessCall ==
    /\ agg_pc = "call"
    /\ agg_vendors' = <<>>
    /\ agg_i' = 0
    /\ agg_pc' = "loop"
    /\ UNCHANGED <<agg_issues, agg_events, agg_rows, semVars, relVars, fetchVars, mainVars, slackVars>>

\* vendor is None: continue
ProcessSkip ==
    /\ agg_pc = "loop"
    /\ agg_i < Len(agg_issues)
    /\ get_vendor(agg_issues[agg_i + 1]) = <<>>
    /\ agg_i' = agg_i + 1
    /\ UNCHANGED <<agg_issues, agg_vendors, agg_events, agg_rows, agg_pc,
                   semVars, relVars, fetchVars, mainVars, slackVars>>

\* one issue is added to its vendor's record
ProcessIssue ==
    /\ agg_pc = "loop"
    /\ agg_i < Len(agg_issues)
    /\ get_vendor(agg_issues[agg_i + 1]) # <<>>
    /\ agg_events' = IssueEvents(agg_issues[agg_i + 1])
    /\ agg_vendors' = Aggregate(agg_vendors, get_vendor(agg_issues[agg_i + 1]),
                                agg_events', IssueMessage(agg_issues[agg_i + 1]))
    /\ agg_i' = agg_i + 1
    /\ UNCHANGED <<agg_issues, agg_rows, agg_pc, semVars, relVars, fetchVars, mainVars, slackVars>>

\* return vendors
ProcessReturn ==
    /\ agg_pc = "loop"
    /\ agg_i = Len(agg_issues)
    /\ agg_pc' = "processed"
    /\ UNCHANGED <<agg_issues, agg_i, agg_vendors, agg_events, agg_rows,
                   semVars, relVars, fetchVars, mainVars, slackVars>>

\* save_report: the file holds the header and one row per vendor
SaveReport ==
    /\ agg_pc = "processed"
    /\ agg_rows' = ReportRows(agg_vendors)
    /\ agg_pc' = "saved"
    /\ UNCHANGED <<agg_issues, agg_i, agg_vendors, agg_events, semVars, relVars, fetchVars, mainVars, slackVars>>

AggNext ==
    \/ ProcessCall
    \/ ProcessSkip
    \/ ProcessIssue
    \/ ProcessReturn
    \/ SaveReport

SpecAggregate == AggInit /\ [][AggNext]_vars

(***************************************************************************)
(* C1, C5, C6                                                              *)
(***************************************************************************)
\* the normalized type of the issue at position i: trimmed, lower-cased
Normalized(i) == Lower(Strip(agg_issues[i].type))

Classified(i) == Normalized(i) # <<>> /\ Normalized(i) \notin EXCLUDE

\* the positions of the issues classified to vendor v
IssuesOf(v) == {i \in 1..Len(agg_issues) : Classified(i) /\ Normalized(i) = v}

RECURSIVE SumOver(_, _)
SumOver(S, f) ==
    IF S = {} THEN 0
    ELSE LET x == CHOOSE y \in S : TRUE IN f[x] + SumOver(S \ {x}, f)

EventsAt == [i \in 1..Len(agg_issues) |-> IssueEvents(agg_issues[i])]

\* C1: the keys of the vendor map are exactly the distinct trimmed, lower-cased
\* metadata.type values that are non-empty and not in EXCLUDE (no case variant
\* of an excluded word is a key); each key appears once in the map and in one
\* row of the report; its Events and IssueCount are the sum of the event
\* counts and the number of exactly the issues classified to it.
VendorKeysAndTotals ==
    agg_pc \in {"processed", "saved"} =>
        /\ {agg_vendors[i].vendor : i \in 1..Len(agg_vendors)}
              = {Normalized(i) : i \in {j \in 1..Len(agg_issues) : Classified(j)}}
        /\ \A i, j \in 1..Len(agg_vendors) :
              i # j => agg_vendors[i].vendor # agg_vendors[j].vendor
        /\ \A i \in 1..Len(agg_vendors) :
              /\ agg_vendors[i].vendor \notin EXCLUDE
              /\ agg_vendors[i].Events = SumOver(IssuesOf(agg_vendors[i].vendor), EventsAt)
              /\ agg_vendors[i].IssueCount = Cardinality(IssuesOf(agg_vendors[i].vendor))
        /\ agg_pc = "saved" =>
              /\ Len(agg_rows) = Len(agg_vendors)
              /\ \A i \in 1..Len(agg_vendors) :
                    Cardinality({r \in 1..Len(agg_rows) :
                        /\ agg_rows[r].Vendor = Capitalize(agg_vendors[i].vendor)
                        /\ agg_rows[r].Events = agg_vendors[i].Events
                        /\ agg_rows[r].Issues = agg_vendors[i].IssueCount}) = 1

\* "Stripe" and " STRIPE " fall into one row, "TypeError" into none
VendorKeysWitness ==
    /\ agg_pc = "saved"
    /\ Len(agg_issues) = 3
    /\ agg_issues[1].type = Stripe
    /\ agg_issues[2].type = <<"T", "y", "p", "e", "E", "r", "r", "o", "r">>
    /\ agg_issues[3].type = <<" ", "S", "T", "R", "I", "P", "E", " ">>
    /\ Len(agg_rows) = 1
    /\ agg_rows[1].Vendor = Stripe
    /\ agg_rows[1].Events = 5
    /\ agg_rows[1].Issues = 2

\* the issue the loop aggregated last
LastIssue == agg_issues[agg_i]

Aggregated == agg_pc = "loop" /\ agg_i > 0 /\ Classified(agg_i)

FirstSeries == LastIssue.stats[1].series

\* C5 as stated: the sum of the series when the series is present and
\* non-empty, the raw total count in every other case, an empty series included.
EventsFromNonEmptySeriesElseCount ==
    Aggregated =>
        agg_events = IF /\ LastIssue.stats # <<>>
                        /\ FirstSeries.isList
                        /\ FirstSeries.counts # <<>>
                     THEN SumSeq(FirstSeries.counts)
                     ELSE LastIssue.count

\* C5 as amended: the events of a non-excluded issue come from one source: the
\* sum of the counts of the first series of stats when stats is non-empty, its
\* first key is non-empty and that series is a list (0 for an empty list); the
\* raw total count otherwise; never the two added.
EventsFromOneSource ==
    Aggregated =>
        /\ (LastIssue.stats # <<>> /\ LastIssue.stats[1].key # "" /\ FirstSeries.isList)
              => agg_events = SumSeq(FirstSeries.counts)
        /\ ~(LastIssue.stats # <<>> /\ LastIssue.stats[1].key # "" /\ FirstSeries.isList)
              => agg_events = LastIssue.count
        /\ \E i \in 1..Len(agg_vendors) :
              /\ agg_vendors[i].vendor = Normalized(agg_i)
              /\ agg_vendors[i].Events =
                    SumOver(IssuesOf(agg_vendors[i].vendor) \cap 1..agg_i, EventsAt)

\* an issue whose series is an empty list counts 0 events, not its total of 3
EventsOneSourceWitness ==
    /\ Aggregated
    /\ LastIssue.stats # <<>>
    /\ FirstSeries.isList
    /\ FirstSeries.counts = <<>>
    /\ LastIssue.count = 3
    /\ agg_events = 0

\* the position of the first issue classified to the vendor shown in row r
FirstSeen(r) ==
    CHOOSE i \in 1..Len(agg_issues) :
        /\ Classified(i)
        /\ Capitalize(Normalized(i)) = agg_rows[r].Vendor
        /\ \A j \in 1..(i - 1) : ~(Classified(j) /\ Normalized(j) = Normalized(i))

\* C6: the rows are in descending order of Events; two vendors with equal
\* Events are in the order in which they were first encountered; the ranks
\* are 1, 2, ..., n by position.
RankingStable ==
    agg_pc = "saved" =>
        /\ \A r \in 1..Len(agg_rows) : agg_rows[r].Rank = r
        /\ \A r, q \in 1..Len(agg_rows) :
              r < q =>
                  /\ agg_rows[r].Events >= agg_rows[q].Events
                  /\ agg_rows[r].Events = agg_rows[q].Events => FirstSeen(r) < FirstSeen(q)

\* Plaid and Stripe tie at 5 events and keep their order of discovery
RankingWitness ==
    /\ agg_pc = "saved"
    /\ Len(agg_rows) = 3
    /\ agg_rows[1].Vendor = Plaid /\ agg_rows[1].Events = 5 /\ agg_rows[1].Rank = 1
    /\ agg_rows[2].Vendor = Stripe /\ agg_rows[2].Events = 5 /\ agg_rows[2].Rank = 2
    /\ agg_rows[3].Vendor = Adyen /\ agg_rows[3].Events = 2 /\ agg_rows[3].Rank = 3

(***************************************************************************)
(* main                                                                    *)
(***************************************************************************)
\* process_issues as one call: the for loop over issues
RECURSIVE process_issues(_, _)
process_issues(issues, vendors) ==
    IF issues = <<>> THEN vendors
    ELSE process_issues(Tail(issues),
            IF get_vendor(Head(issues)) = <<>> THEN vendors
            ELSE Aggregate(vendors, get_vendor(Head(issues)), IssueEvents(Head(issues)),
                           IssueMessage(Head(issues))))

\* the catalogs and issue lists a run of main meets
MainReleasePool == {R(V31, Iso(0)), R(V32, Iso(0)), R(V33, Iso(1))}

MainIssuePool ==
    { Issue(Stripe, <<"a">>, <<>>, 5, <<>>),
      Issue(Stripe, <<"b">>, <<>>, 3, <<>>),
      Issue(<<"u", "n", "k", "n", "o", "w", "n">>, <<"a">>, <<>>, 100, <<>>),
      Issue(Plaid, <<"b">>, <<>>, 5, Stats14d(<<1, 1>>)) }

MainInit ==
    /\ m_org \in BOOLEAN
    /\ m_project \in BOOLEAN
    /\ m_token \in BOOLEAN
    /\ m_pc = "start"
    /\ m_releases = <<>>
    /\ m_issues = <<>>
    /\ m_vendors = <<>>
    /\ m_file = NoFile
    /\ m_calls = <<>>
    /\ Others("main")

\* if not ORG or not PROJECT or not TOKEN: raise SystemExit
MainMissingEnv ==
    /\ m_pc = "start"
    /\ ~(m_org /\ m_project /\ m_token)
    /\ m_pc' = "exit"
    /\ UNCHANGED <<m_org, m_project, m_token, m_releases, m_issues, m_vendors, m_file,
                   m_calls, semVars, relVars, fetchVars, aggVars, slackVars>>

\* releases = get_latest_releases(limit=RELEASES_LIMIT, end_dt=end_date)
MainReleases ==
    /\ m_pc = "start"
    /\ m_org /\ m_project /\ m_token
    /\ \E data \in SeqsUpTo(MainReleasePool, 2), limit \in 1..2, ok \in BOOLEAN :
          m_releases' = IF ok THEN PickedReleases(data, limit, 0, <<"3", ".">>) ELSE <<>>
    /\ m_calls' = Append(m_calls, "get_latest_releases")
    /\ m_pc' = "fetch"
    /\ UNCHANGED <<m_org, m_project, m_token, m_issues, m_vendors, m_file,
                   semVars, relVars, fetchVars, aggVars, slackVars>>

\* issues, stats_period_used = fetch_issues(start_date, end_date, releases or None)
MainFetch ==
    /\ m_pc = "fetch"
    /\ m_issues' \in SeqsUpTo(MainIssuePool, MaxMainIssues)
    /\ m_calls' = Append(m_calls, "fetch_issues")
    /\ m_pc' = "process"
    /\ UNCHANGED <<m_org, m_project, m_token, m_releases, m_vendors, m_file,
                   semVars, relVars, fetchVars, aggVars, slackVars>>

\* vendors = process_issues(issues)
MainProcess ==
    /\ m_pc = "process"
    /\ m_vendors' = process_issues(m_issues, <<>>)
    /\ m_calls' = Append(m_calls, "process_issues")
    /\ m_pc' = "save"
    /\ UNCHANGED <<m_org, m_project, m_token, m_releases, m_issues, m_file,
                   semVars, relVars, fetchVars, aggVars, slackVars>>

\* sorted_vendors = save_report(vendors, report_filename, stats_period_used):
\* the with block has written and closed the file when the call returns
MainSaveReport ==
    /\ m_pc = "save"
    /\ m_file' = [state |-> "closed", rows |-> ReportRows(m_vendors),
                  period |-> StatsPeriod(7)]
    /\ m_calls' = Append(m_calls, "save_report")
    /\ m_pc' = "print"
    /\ UNCHANGED <<m_org, m_project, m_token, m_releases, m_issues, m_vendors,
                   semVars, relVars, fetchVars, aggVars, slackVars>>

\* the top 10 and "Report saved" are printed; main returns
MainReturn ==
    /\ m_pc = "print"
    /\ m_pc' = "done"
    /\ UNCHANGED <<m_org, m_project, m_token, m_releases, m_issues, m_vendors, m_file,
                   m_calls, semVars, relVars, fetchVars, aggVars, slackVars>>

MainNext ==
    \/ MainMissingEnv
    \/ MainReleases
    \/ MainFetch
    \/ MainProcess
    \/ MainSaveReport
    \/ MainReturn

SpecMain == MainInit /\ [][MainNext]_vars

(***************************************************************************)
(* C9                                                                      *)
(***************************************************************************)
\* C9: a run of main with org, project and token configured has, when it ends,
\* made its calls in the order release selection, issue fetch, aggregation,
\* ranking/rendering, delivery: the written and closed report file was handed
\* to upload_file_to_slack, once, as the last step.
MainDeliversReport ==
    m_pc = "done" =>
        /\ m_file.state = "closed"
        /\ m_calls = <<"get_latest_releases", "fetch_issues", "process_issues",
                       "save_report", "upload_file_to_slack">>

(***************************************************************************)
(* upload_file_to_slack                                                    *)
(***************************************************************************)
\* a refused upload slot followed by the transfer
AfterSlotRefusedGoesOn == "transfer"

\* where a refused upload slot leads: return False
AfterSlotRefused == "returned"

\* upload_resp.status_code not in (200, 201)
TransferFailed(status_code) == status_code \notin {200, 201}

SlackInit ==
    /\ sl_token \in BOOLEAN
    /\ sl_channel \in BOOLEAN
    /\ sl_file \in [size : 0..MaxFileSize, writes : {0}]
    /\ sl_pc = "call"
    /\ sl_slot = NoSlot
    /\ sl_put = 0
    /\ sl_complete = FALSE
    /\ sl_requests = <<>>
    /\ sl_ret = "none"
    /\ Others("slack")

\* if not slack_token or not slack_channel: print, return
SlackNotConfigured ==
    /\ sl_pc = "call"
    /\ ~(sl_token /\ sl_channel)
    /\ sl_ret' = "None"
    /\ sl_pc' = "returned"
    /\ UNCHANGED <<sl_token, sl_channel, sl_file, sl_slot, sl_put, sl_complete,
                   sl_requests, semVars, relVars, fetchVars, aggVars, mainVars>>

\* step 1: requests.post(files.getUploadURLExternal) with filename and length
SlackGetUploadURL ==
    /\ sl_pc = "call"
    /\ sl_token /\ sl_channel
    /\ sl_requests' = Append(sl_requests, [to |-> "files.getUploadURLExternal",
                                           length |-> sl_file.size, file_id |-> ""])
    /\ sl_slot' \in [ok : BOOLEAN, upload_url : {"", "U1"}, file_id : {"", "F1", "F2"}]
    /\ (sl_slot'.ok => sl_slot'.upload_url # "" /\ sl_slot'.file_id # "")
    /\ (~sl_slot'.ok => sl_slot'.upload_url = "" /\ sl_slot'.file_id = "")
    /\ sl_pc' = "slot"
    /\ UNCHANGED <<sl_token, sl_channel, sl_file, sl_put, sl_complete, sl_ret,
                   semVars, relVars, fetchVars, aggVars, mainVars>>

\* if not get_url_json.get("ok"): print, return False
SlackSlotRefused ==
    /\ sl_pc = "slot"
    /\ ~sl_slot.ok
    /\ sl_pc' = AfterSlotRefused
    /\ sl_ret' = IF sl_pc' = "returned" THEN "False" ELSE sl_ret
    /\ UNCHANGED <<sl_token, sl_channel, sl_file, sl_slot, sl_put, sl_complete,
                   sl_requests, semVars, relVars, fetchVars, aggVars, mainVars>>

\* upload_url, file_id are read
SlackSlotGranted ==
    /\ sl_pc = "slot"
    /\ sl_slot.ok
    /\ sl_pc' = "transfer"
    /\ UNCHANGED <<sl_token, sl_channel, sl_file, sl_slot, sl_put, sl_complete,
                   sl_requests, sl_ret, semVars, relVars, fetchVars, aggVars, mainVars>>

\* step 2: with open(filepath, "rb"): requests.put(upload_url, data=f)
SlackTransfer ==
    /\ sl_pc = "transfer"
    /\ sl_requests' = Append(sl_requests, [to |-> sl_slot.upload_url,
                                           length |-> sl_file.size, file_id |-> ""])
    /\ sl_put' \in {200, 201, 403, 500}
    /\ sl_pc' = "transferred"
    /\ UNCHANGED <<sl_token, sl_channel, sl_file, sl_slot, sl_complete, sl_ret,
                   semVars, relVars, fetchVars, aggVars, mainVars>>

\* if upload_resp.status_code not in (200, 201): print, return False
SlackTransferFailed ==
    /\ sl_pc = "transferred"
    /\ TransferFailed(sl_put)
    /\ sl_ret' = "False"
    /\ sl_pc' = "returned"
    /\ UNCHANGED <<sl_token, sl_channel, sl_file, sl_slot, sl_put, sl_complete,
                   sl_requests, semVars, relVars, fetchVars, aggVars, mainVars>>

\* step 3: requests.post(files.completeUploadExternal) with the file id, the
\* channel and the comment
SlackComplete ==
    /\ sl_pc = "transferred"
    /\ ~TransferFailed(sl_put)
    /\ sl_requests' = Append(sl_requests, [to |-> "files.completeUploadExternal",
                                           length |-> 0, file_id |-> sl_slot.file_id])
    /\ sl_complete' \in BOOLEAN
    /\ sl_pc' = "completed"
    /\ UNCHANGED <<sl_token, sl_channel, sl_file, sl_slot, sl_put, sl_ret,
                   semVars, relVars, fetchVars, aggVars, mainVars>>

\* if not complete_json.get("ok"): return False; else return True
SlackReturn ==
    /\ sl_pc = "completed"
    /\ sl_ret' = IF sl_complete THEN "True" ELSE "False"
    /\ sl_pc' = "returned"
    /\ UNCHANGED <<sl_token, sl_channel, sl_file, sl_slot, sl_put, sl_complete,
                   sl_requests, semVars, relVars, fetchVars, aggVars, mainVars>>

SlackNext ==
    \/ SlackNotConfigured
    \/ SlackGetUploadURL
    \/ SlackSlotRefused
    \/ SlackSlotGranted
    \/ SlackTransfer
    \/ SlackTransferFailed
    \/ SlackComplete
    \/ SlackReturn

SpecSlack == SlackInit /\ [][SlackNext]_vars

(***************************************************************************)
(* C10                                                                     *)
(***************************************************************************)
Sent(n) == Len(sl_requests) >= n

\* C10: the requests are sent in the order upload slot, transfer, finalize,
\* each at most once, the transfer only after the slot was granted and the
\* finalize only after the transfer answered 200 or 201; a refused slot or a
\* failed transfer ends the call with False and no later request; True is
\* returned only when all three steps succeeded; without the token or the
\* channel no request is made; the file is never written.
UploadStepsInOrder ==
    /\ Len(sl_requests) <= 3
    /\ Sent(1) => sl_requests[1].to = "files.getUploadURLExternal" /\ sl_token /\ sl_channel
    /\ Sent(2) => sl_requests[2].to = sl_slot.upload_url /\ sl_slot.ok
    /\ Sent(3) => /\ sl_requests[3].to = "files.completeUploadExternal"
                  /\ sl_put \in {200, 201}
                  /\ sl_requests[3].file_id = sl_slot.file_id
    /\ ~(sl_token /\ sl_channel) => sl_requests = <<>>
    /\ sl_pc = "returned" =>
          /\ (Sent(1) /\ ~sl_slot.ok) => (sl_ret = "False" /\ Len(sl_requests) = 1)
          /\ (Sent(2) /\ sl_put \notin {200, 201}) => (sl_ret = "False" /\ Len(sl_requests) = 2)
          /\ sl_ret = "True" <=>
                (Len(sl_requests) = 3 /\ sl_slot.ok /\ sl_put \in {200, 201} /\ sl_complete)
          /\ sl_ret \in {"None", "False", "True"}
          /\ sl_ret = "None" <=> ~(sl_token /\ sl_channel)
    /\ sl_file.writes = 0

\* the transfer is refused with 403: two requests, False, no finalize
UploadWitness ==
    /\ sl_pc = "returned"
    /\ sl_ret = "False"
    /\ Len(sl_requests) = 2
    /\ sl_slot.ok
    /\ sl_put = 403

(***************************************************************************)
(* Version strings the comparator is exercised on.                         *)
(***************************************************************************)
RECURSIVE StringsUpTo(_, _)
StringsUpTo(alphabet, n) ==
    IF n = 0 THEN {<<>>}
    ELSE LET shorter == StringsUpTo(alphabet, n - 1)
         IN  shorter \cup {Append(s, c) : s \in shorter, c \in alphabet}

VerAlphabet == {"3", ".", "-", "b", " "}
SufAlphabet == {"1", "2", "b", "+"}

VerStrings == StringsUpTo(VerAlphabet, MaxVerLen)
SufStrings == StringsUpTo(SufAlphabet, MaxSufLen)

NamedVersions ==
    {V306, V3039, V311, V312, V313, V31, V310, V310beta1, V310beta2, V12345, V12349}

TieBases == {<<"3">>, V310}

\* The pairs (a, b) of versions handed to the comparator, by kind:
\*   "meta":   b is a followed by "+" and build metadata
\*   "pre":    b is a followed by "-" and a pre-release suffix
\*   "pad":    b is a followed by ".0"
\*   "nonnum": a and b are one prefix followed by ".b" and by ".0"
\*   "tie":    a and b are one prefix followed by "-" and two suffixes
\*   "named":  two of the versions named above
SemverInit ==
    /\ \/ \E a \in VerStrings \cup NamedVersions, m \in SufStrings :
            sv_kind = "meta" /\ sv_a = a /\ sv_b = a \o <<"+">> \o m
       \/ \E a \in VerStrings, s \in SufStrings :
            sv_kind = "pre" /\ sv_a = a /\ sv_b = a \o <<"-">> \o s
       \/ \E a \in VerStrings \cup {V310beta1} :
            sv_kind = "pad" /\ sv_a = a /\ sv_b = a \o <<".", "0">>
       \/ \E a \in VerStrings :
            sv_kind = "nonnum" /\ sv_a = a \o <<".", "b">> /\ sv_b = a \o <<".", "0">>
       \/ \E a \in TieBases, s \in SufStrings, t \in SufStrings :
            sv_kind = "tie" /\ sv_a = a \o <<"-">> \o s /\ sv_b = a \o <<"-">> \o t
       \/ \E a \in NamedVersions, c \in NamedVersions :
            sv_kind = "named" /\ sv_a = a /\ sv_b = c
    /\ sv_ka = <<>>
    /\ sv_kb = <<>>
    /\ sv_pc = "input"
    /\ Others("semver")

SemverKeyA ==
    /\ sv_pc = "input"
    /\ sv_ka' = semver_key(sv_a)
    /\ sv_pc' = "keyed_a"
    /\ UNCHANGED <<sv_kind, sv_a, sv_b, sv_kb, relVars, fetchVars, aggVars, mainVars, slackVars>>

SemverKeyB ==
    /\ sv_pc = "keyed_a"
    /\ sv_kb' = semver_key(sv_b)
    /\ sv_pc' = "keyed"
    /\ UNCHANGED <<sv_kind, sv_a, sv_b, sv_ka, relVars, fetchVars, aggVars, mainVars, slackVars>>

SemverNext == SemverKeyA \/ SemverKeyB

SpecSemver == SemverInit /\ [][SemverNext]_vars

(***************************************************************************)
(* C8                                                                      *)
(***************************************************************************)
IsKey(k) ==
    /\ Len(k) = 6
    /\ \A i \in 1..6 : k[i] \in Nat
    /\ k[5] \in {0, 1}

\* b is a followed by sep and anything
Extends(a, b, sep) ==
    /\ Len(b) > Len(a)
    /\ SubSeq(b, 1, Len(a)) = a
    /\ b[Len(a) + 1] = sep

Greater(v, w) ==
    (sv_a = v /\ sv_b = w) => KeyLess(sv_kb, sv_ka)

\* C8: semver_key yields a six-component key (n1, n2, n3, n4, isFinal,
\* prereleaseNumber) for every version string; build metadata after '+' does not
\* change the key; absent and non-numeric components count as 0 and components
\* after the fourth are ignored; a version with a '-' suffix has a strictly
\* smaller key than its prefix without one; among equal prefixes the first
\* integer of the suffix breaks the tie; and 3.1.3 > 3.1.2 > 3.1.1 > 3.0.39 >
\* 3.0.6, 3.1.0-beta.2 > 3.1.0-beta.1, 3.1.0-beta.1 < 3.1.0, 3.1 == 3.1.0.
SemverKeyOrdering ==
    sv_pc = "keyed" =>
        /\ IsKey(sv_ka) /\ IsKey(sv_kb)
        /\ Extends(sv_a, sv_b, "+") => sv_kb = sv_ka
        /\ (~Contains(sv_a, "-") /\ ~Contains(sv_a, "+") /\ Extends(sv_a, sv_b, "-"))
              => KeyLess(sv_kb, sv_ka)
        /\ sv_kind \in {"pad", "nonnum"} => sv_ka = sv_kb
        /\ sv_kind = "tie" =>
              LET na == DigitsValue(FirstDigitRun(BeforeFirst(AfterFirst(sv_a, "-"), "+")), 0)
                  nb == DigitsValue(FirstDigitRun(BeforeFirst(AfterFirst(sv_b, "-"), "+")), 0)
              IN  /\ KeyLess(sv_ka, sv_kb) <=> na < nb
                  /\ sv_ka = sv_kb <=> na = nb
        /\ Greater(V313, V312) /\ Greater(V312, V311) /\ Greater(V311, V3039)
        /\ Greater(V3039, V306) /\ Greater(V313, V306)
        /\ Greater(V310beta2, V310beta1) /\ Greater(V310, V310beta1)
        /\ (sv_a = V31 /\ sv_b = V310) => sv_ka = sv_kb
        /\ (sv_a = V12345 /\ sv_b = V12349) => sv_ka = sv_kb

SemverWitness ==
    /\ sv_pc = "keyed"
    /\ sv_a = V310
    /\ sv_b = V310beta1
    /\ sv_ka = <<3, 1, 0, 0, 1, 0>>
    /\ sv_kb = <<3, 1, 0, 0, 0, 1>>

====
